---- MODULE Spec2Model ----
(***************************************************************************)
(* IoT fan speed controller backend.                                       *)
(*                                                                         *)
(* src/server.js (lines 162-342, the serverless variant without the push   *)
(* channel) is modelled as a set of request slots, each running one route  *)
(* handler; a handler is cut at its awaits on the document store, so that  *)
(* concurrent handlers interleave exactly where the event loop lets them.  *)
(* src/unnamed/part_000 (the variant with the socket.io push channel) is   *)
(* modelled beside it on a storage of its own, to compare the two.         *)
(***************************************************************************)
EXTENDS Integers, Sequences, FiniteSets, TLC

\* ---------------------------------------------------------------- bounds
NumProcs == 2
MaxRequests == 3
MaxClock == 1
Prefill == 49

\* ------------------------------------------------------ program constants
LIMIT == 50
DefaultThreshold == 30

Procs == 1..NumProcs

GetData == "GET /api/data"
GetConfig == "GET /api/config"
PostConfig == "POST /api/config"
PostData == "POST /api/esp8266/data"
GetEspConfig == "GET /api/esp8266/config"

ConfigReads == {GetConfig, GetEspConfig}
EnsureRoutes == {GetData, GetConfig, GetEspConfig}
Routes == EnsureRoutes \cup {PostConfig, PostData}

\* A JSON body field: <<>> is undefined (the field is absent), <<n>> is the number n.
Undefined == <<>>
NoBody == [threshold |-> Undefined, temperature |-> Undefined, fanSpeed |-> Undefined]
ConfigBodies == {[NoBody EXCEPT !.threshold = t] : t \in {Undefined, <<42>>, <<55>>}}
DataBodies ==
  {[NoBody EXCEPT !.temperature = f[1], !.fanSpeed = f[2]] :
      f \in {<<Undefined, <<60>>>>, <<<<25>>, Undefined>>, <<<<25>>, <<60>>>>}}
Bodies(r) ==
  IF r = PostConfig THEN ConfigBodies ELSE IF r = PostData THEN DataBodies ELSE {NoBody}

VARIABLES
  isConnected,  \* server.js: the connection-cached flag
  configs,      \* the Config collection, in natural (insertion) order
  readings,     \* the Data collection, in natural (insertion) order
  clock,        \* Date.now()
  pc,           \* per slot: the await its handler is suspended at
  req,          \* per slot: the request being handled
  doc,          \* per slot: the document built before the pending write
  res,          \* per slot: the response sent
  nextId,       \* the next _id a new Data document gets
  started,      \* requests accepted so far
  connectCalls, \* calls of mongoose.connect so far
  setSeq,       \* upserts applied so far
  seen,         \* per slot: setSeq / Len(readings) when the request arrived;
                \*           for POST /api/config, the number of its own upsert
  t0,           \* per slot: Date.now() when its POST /api/config arrived
  faulted,      \* per slot: a storage operation failed while handling it
  anyFault,     \* some storage operation has failed
  vConfigs,     \* part_000: its Config collection
  vReadings,    \* part_000: its Data collection
  vInit,        \* part_000: position of the startup initializeConfig()
  vDoc,         \* part_000: the document initializeConfig() is creating
  vNew,         \* part_000: the document its handler built before its await
  vMiss,        \* part_000: its upsert found no Config and is about to insert
  vRes,         \* part_000: its response to the current request
  vHandled,     \* part_000: it has answered the current request
  emitted       \* part_000: events sent on the push channel

svars == <<isConnected, configs, readings, clock, pc, req, doc, res, nextId,
           started, connectCalls, setSeq, seen, t0, faulted, anyFault>>
vvars == <<vConfigs, vReadings, vInit, vDoc, vNew, vMiss, vRes, vHandled, emitted>>
vars == <<svars, vvars>>

\* --------------------------------------------------------------- storage
Min(a, b) == IF a < b THEN a ELSE b

Reverse(s) == [i \in 1..Len(s) |-> s[Len(s) + 1 - i]]

\* The documents of rs stamped t, in natural order.
Stamped(rs, t) == SelectSeq(rs, LAMBDA r : r.timestamp = t)

\* MongoDB leaves the order of documents with equal sort keys unspecified:
\* tie is the order the store happens to return them in.
TieOrders == {"natural", "reverse"}

RECURSIVE SortFrom(_, _, _)
SortFrom(rs, t, tie) ==
  IF t < 0 THEN <<>>
  ELSE (IF tie = "natural" THEN Stamped(rs, t) ELSE Reverse(Stamped(rs, t)))
         \o SortFrom(rs, t - 1, tie)

MaxStamp(rs) ==
  IF rs = <<>> THEN 0
  ELSE LET ts == {rs[i].timestamp : i \in 1..Len(rs)}
       IN CHOOSE t \in ts : \A u \in ts : u <= t

\* .sort({ timestamp: -1 })
SortAscending(rs, tie) == Reverse(SortFrom(rs, MaxStamp(rs), tie))
sortByTimestampDesc(rs, tie) == SortFrom(rs, MaxStamp(rs), tie)

\* .limit(n)
NoLimit(s, n) == s
limit(s, n) == SubSeq(s, 1, Min(n, Len(s)))

\* Data.find().sort({ timestamp: -1 }).limit(50)
findRecent(rs, tie) == limit(sortByTimestampDesc(rs, tie), LIMIT)

\* Config.findOne(): the first document in natural order, or null (<<>>).
findOne(cs) == IF cs = <<>> THEN <<>> ELSE <<cs[1]>>

\* Config.findOneAndUpdate({}, upd, { new: true, upsert: true }). The filter {}
\* matches any document, and the first one in natural order is updated in place,
\* atomically. With no document the store inserts upd, and since the schema
\* declares no unique index, the insert is a step of its own after the miss:
\* what other writers insert in between stays.
matched(cs) == cs # <<>>
updateFirst(cs, upd) ==
  [cs EXCEPT ![1].threshold = upd.threshold, ![1].lastUpdated = upd.lastUpdated]
upsertInsert(cs, upd) == Append(cs, upd)

\* new Config({ threshold: 30 }): lastUpdated defaults to Date.now().
ZeroConfig(t) == [threshold |-> 0, lastUpdated |-> t]
defaultConfig(t) == [threshold |-> DefaultThreshold, lastUpdated |-> t]

\* { threshold, lastUpdated: Date.now() }
configUpdate(b, t) == [threshold |-> b.threshold[1], lastUpdated |-> t]

\* new Data({ temperature, fanSpeed, timestamp: Date.now() })
newData(id, b, t) ==
  [id |-> id, temperature |-> b.temperature[1], fanSpeed |-> b.fanSpeed[1],
   timestamp |-> t]

\* The store as earlier runs left it: n readings, all taken at instant 0.
Stored(n) == [i \in 1..n |-> [id |-> i, temperature |-> 25, fanSpeed |-> 60, timestamp |-> 0]]

\* ------------------------------------------------------------- responses
\* body is a sequence: the documents returned; <<>> is null for a Config route.
NoResponse == [status |-> 0, body |-> <<>>, error |-> ""]
Ok(body) == [status |-> 200, body |-> body, error |-> ""]
BadRequest(msg) == [status |-> 400, body |-> <<>>, error |-> msg]
ServerError == [status |-> 500, body |-> <<>>, error |-> "storage error"]

ThresholdRequired == "Threshold value is required"
ReadingRequired == "Temperature and fan speed values are required"

\* threshold === undefined
missingThreshold(b) == b.threshold = Undefined
\* temperature === undefined || fanSpeed === undefined
missingReading(b) == b.temperature = Undefined \/ b.fanSpeed = Undefined

\* The read a route performs after initializeConfig().
readStage(r) == IF r = GetData THEN "find" ELSE "findOne"

Set(f, p, v) == [f EXCEPT ![p] = v]

\* ------------------------------------------------------------------ Init
Init ==
  /\ isConnected = FALSE
  /\ configs = <<>>
  /\ \E n \in {0, Prefill} : readings = Stored(n) /\ nextId = n + 1 /\ vReadings = Stored(n)
  /\ clock = 0
  /\ pc = [p \in Procs |-> "idle"]
  /\ req = [p \in Procs |-> [route |-> GetData, body |-> NoBody]]
  /\ doc = [p \in Procs |-> <<>>]
  /\ res = [p \in Procs |-> NoResponse]
  /\ started = 0
  /\ connectCalls = 0
  /\ setSeq = 0
  /\ seen = [p \in Procs |-> 0]
  /\ t0 = [p \in Procs |-> 0]
  /\ faulted = [p \in Procs |-> FALSE]
  /\ anyFault = FALSE
  /\ vConfigs = <<>>
  /\ vInit = "count"
  /\ vDoc = <<>>
  /\ vNew = <<>>
  /\ vMiss = FALSE
  /\ vRes = NoResponse
  /\ vHandled = TRUE
  /\ emitted = <<>>

\* ------------------------------------------------- server.js: the routes
\* The handler of route r, from the return of `await connectToDatabase()` to its
\* next await (or to its response): validation, and the document it builds.
afterConnect(p, r, b) ==
  IF r \in EnsureRoutes THEN
    /\ pc' = Set(pc, p, "count")
    /\ doc' = Set(doc, p, <<>>)
    /\ res' = Set(res, p, NoResponse)
    /\ UNCHANGED nextId
  ELSE IF r = PostConfig THEN
    /\ pc' = Set(pc, p, IF missingThreshold(b) THEN "done" ELSE "upsert")
    /\ doc' = Set(doc, p, IF missingThreshold(b) THEN <<>> ELSE <<configUpdate(b, clock)>>)
    /\ res' = Set(res, p, IF missingThreshold(b) THEN BadRequest(ThresholdRequired)
                          ELSE NoResponse)
    /\ UNCHANGED nextId
  ELSE
    /\ pc' = Set(pc, p, IF missingReading(b) THEN "done" ELSE "save")
    /\ doc' = Set(doc, p, IF missingReading(b) THEN <<>> ELSE <<newData(nextId, b, clock)>>)
    /\ res' = Set(res, p, IF missingReading(b) THEN BadRequest(ReadingRequired)
                          ELSE NoResponse)
    /\ nextId' = IF missingReading(b) THEN nextId ELSE nextId + 1

\* A request arrives and its handler runs to its first await: connectToDatabase()
\* returns at once when isConnected, and calls mongoose.connect otherwise.
Start(p, r, b) ==
  /\ pc[p] \in {"idle", "done"}
  /\ started < MaxRequests
  /\ started' = started + 1
  /\ req' = Set(req, p, [route |-> r, body |-> b])
  /\ t0' = Set(t0, p, IF r = PostConfig THEN clock ELSE 0)
  /\ seen' = Set(seen, p, IF r \in ConfigReads THEN setSeq
                          ELSE IF r = GetData THEN Len(readings) ELSE 0)
  /\ faulted' = Set(faulted, p, FALSE)
  /\ IF isConnected
       THEN afterConnect(p, r, b) /\ UNCHANGED connectCalls
       ELSE /\ pc' = Set(pc, p, "connecting")
            /\ doc' = Set(doc, p, <<>>)
            /\ res' = Set(res, p, NoResponse)
            /\ connectCalls' = connectCalls + 1
            /\ UNCHANGED nextId
  /\ UNCHANGED <<isConnected, configs, readings, clock, setSeq, anyFault>>

Request(p, r, b) == Start(p, r, b) /\ UNCHANGED vvars

\* A storage operation of slot p fails: the handler's catch answers 500.
fail(p) ==
  /\ pc' = Set(pc, p, "done")
  /\ doc' = Set(doc, p, <<>>)
  /\ res' = Set(res, p, ServerError)
  /\ faulted' = Set(faulted, p, TRUE)
  /\ anyFault' = TRUE

\* mongoose.connect resolves: isConnected = true, and the handler goes on.
ConnectOk(p) ==
  /\ pc[p] = "connecting"
  /\ isConnected' = TRUE
  /\ afterConnect(p, req[p].route, req[p].body)
  /\ UNCHANGED <<configs, readings, clock, req, started, connectCalls, setSeq, seen,
                 t0, faulted, anyFault>>
  /\ UNCHANGED vvars

\* mongoose.connect rejects: connectToDatabase rethrows.
ConnectFail(p) ==
  /\ pc[p] = "connecting"
  /\ fail(p)
  /\ UNCHANGED <<isConnected, configs, readings, clock, req, nextId, started,
                 connectCalls, setSeq, seen, t0>>
  /\ UNCHANGED vvars

\* initializeConfig: Config.countDocuments() resolves; with no Config the
\* default one is built and Config.create is called.
CountOk(p) ==
  /\ pc[p] = "count"
  /\ IF Len(configs) = 0
       THEN /\ pc' = Set(pc, p, "create")
            /\ doc' = Set(doc, p, <<defaultConfig(clock)>>)
       ELSE /\ pc' = Set(pc, p, readStage(req[p].route))
            /\ UNCHANGED doc
  /\ UNCHANGED <<isConnected, configs, readings, clock, req, res, nextId, started,
                 connectCalls, setSeq, seen, t0, faulted, anyFault>>
  /\ UNCHANGED vvars

\* initializeConfig: Config.countDocuments() rejects; the catch logs it and
\* initializeConfig returns normally.
CountFail(p) ==
  /\ pc[p] = "count"
  /\ pc' = Set(pc, p, readStage(req[p].route))
  /\ faulted' = Set(faulted, p, TRUE)
  /\ anyFault' = TRUE
  /\ UNCHANGED <<isConnected, configs, readings, clock, req, doc, res, nextId,
                 started, connectCalls, setSeq, seen, t0>>
  /\ UNCHANGED vvars

\* initializeConfig: Config.create({ threshold: 30 }) resolves.
CreateOk(p) ==
  /\ pc[p] = "create"
  /\ configs' = Append(configs, doc[p][1])
  /\ pc' = Set(pc, p, readStage(req[p].route))
  /\ doc' = Set(doc, p, <<>>)
  /\ UNCHANGED <<isConnected, readings, clock, req, res, nextId, started,
                 connectCalls, setSeq, seen, t0, faulted, anyFault>>
  /\ UNCHANGED vvars

\* initializeConfig: Config.create rejects; logged, not rethrown.
CreateFail(p) ==
  /\ pc[p] = "create"
  /\ pc' = Set(pc, p, readStage(req[p].route))
  /\ doc' = Set(doc, p, <<>>)
  /\ faulted' = Set(faulted, p, TRUE)
  /\ anyFault' = TRUE
  /\ UNCHANGED <<isConnected, configs, readings, clock, req, res, nextId,
                 started, connectCalls, setSeq, seen, t0>>
  /\ UNCHANGED vvars

\* GET /api/data: Data.find().sort().limit() resolves; res.json(data).
FindOk(p) ==
  /\ pc[p] = "find"
  /\ \E tie \in TieOrders : res' = Set(res, p, Ok(findRecent(readings, tie)))
  /\ pc' = Set(pc, p, "done")
  /\ UNCHANGED <<isConnected, configs, readings, clock, req, doc, nextId, started,
                 connectCalls, setSeq, seen, t0, faulted, anyFault>>
  /\ UNCHANGED vvars

FindFail(p) ==
  /\ pc[p] = "find"
  /\ fail(p)
  /\ UNCHANGED <<isConnected, configs, readings, clock, req, nextId, started,
                 connectCalls, setSeq, seen, t0>>
  /\ UNCHANGED vvars

\* GET /api/config, GET /api/esp8266/config: Config.findOne() resolves;
\* res.json(config).
FindOneOk(p) ==
  /\ pc[p] = "findOne"
  /\ res' = Set(res, p, Ok(findOne(configs)))
  /\ pc' = Set(pc, p, "done")
  /\ UNCHANGED <<isConnected, configs, readings, clock, req, doc, nextId, started,
                 connectCalls, setSeq, seen, t0, faulted, anyFault>>
  /\ UNCHANGED vvars

FindOneFail(p) ==
  /\ pc[p] = "findOne"
  /\ fail(p)
  /\ UNCHANGED <<isConnected, configs, readings, clock, req, nextId, started,
                 connectCalls, setSeq, seen, t0>>
  /\ UNCHANGED vvars

\* POST /api/config: Config.findOneAndUpdate finds a Config and updates it;
\* res.json(config).
UpsertUpdate(p) ==
  /\ pc[p] = "upsert"
  /\ matched(configs)
  /\ configs' = updateFirst(configs, doc[p][1])
  /\ res' = Set(res, p, Ok(<<configs'[1]>>))
  /\ pc' = Set(pc, p, "done")
  /\ doc' = Set(doc, p, <<>>)
  /\ setSeq' = setSeq + 1
  /\ seen' = Set(seen, p, setSeq + 1)
  /\ UNCHANGED <<isConnected, readings, clock, req, nextId, started, connectCalls,
                 t0, faulted, anyFault>>
  /\ UNCHANGED vvars

\* POST /api/config: Config.findOneAndUpdate finds no Config; the store goes on
\* to insert one.
UpsertMiss(p) ==
  /\ pc[p] = "upsert"
  /\ ~matched(configs)
  /\ pc' = Set(pc, p, "insert")
  /\ UNCHANGED <<isConnected, configs, readings, clock, req, doc, res, nextId,
                 started, connectCalls, setSeq, seen, t0, faulted, anyFault>>
  /\ UNCHANGED vvars

\* POST /api/config: the insert of the upsert is applied; res.json(config).
UpsertInsert(p) ==
  /\ pc[p] = "insert"
  /\ configs' = upsertInsert(configs, doc[p][1])
  /\ res' = Set(res, p, Ok(doc[p]))
  /\ pc' = Set(pc, p, "done")
  /\ doc' = Set(doc, p, <<>>)
  /\ setSeq' = setSeq + 1
  /\ seen' = Set(seen, p, setSeq + 1)
  /\ UNCHANGED <<isConnected, readings, clock, req, nextId, started, connectCalls,
                 t0, faulted, anyFault>>
  /\ UNCHANGED vvars

UpsertFail(p) ==
  /\ pc[p] \in {"upsert", "insert"}
  /\ fail(p)
  /\ UNCHANGED <<isConnected, configs, readings, clock, req, nextId, started,
                 connectCalls, setSeq, seen, t0>>
  /\ UNCHANGED vvars

\* POST /api/esp8266/data: newData.save() resolves; res.json(newData).
SaveOk(p) ==
  /\ pc[p] = "save"
  /\ readings' = Append(readings, doc[p][1])
  /\ res' = Set(res, p, Ok(doc[p]))
  /\ pc' = Set(pc, p, "done")
  /\ doc' = Set(doc, p, <<>>)
  /\ UNCHANGED <<isConnected, configs, clock, req, nextId, started, connectCalls,
                 setSeq, seen, t0, faulted, anyFault>>
  /\ UNCHANGED vvars

SaveFail(p) ==
  /\ pc[p] = "save"
  /\ fail(p)
  /\ UNCHANGED <<isConnected, configs, readings, clock, req, nextId, started,
                 connectCalls, setSeq, seen, t0>>
  /\ UNCHANGED vvars

\* Time passes.
Tick ==
  /\ clock < MaxClock
  /\ clock' = clock + 1
  /\ UNCHANGED <<isConnected, configs, readings, pc, req, doc, res, nextId, started,
                 connectCalls, setSeq, seen, t0, faulted, anyFault>>
  /\ UNCHANGED vvars

Step(p) ==
  \/ ConnectOk(p) \/ ConnectFail(p)
  \/ CountOk(p) \/ CountFail(p)
  \/ CreateOk(p) \/ CreateFail(p)
  \/ FindOk(p) \/ FindFail(p)
  \/ FindOneOk(p) \/ FindOneFail(p)
  \/ UpsertUpdate(p) \/ UpsertMiss(p) \/ UpsertInsert(p) \/ UpsertFail(p)
  \/ SaveOk(p) \/ SaveFail(p)

Next ==
  \/ \E p \in Procs, r \in Routes : \E b \in Bodies(r) : Request(p, r, b)
  \/ \E p \in Procs : Step(p)
  \/ Tick

Spec == Init /\ [][Next]_vars

\* ------------------------------------- part_000: the push-channel variant
\* part_000 calls mongoose.connect once at load, keeps no flag, and runs
\* initializeConfig() once at load without awaiting or catching it; its handlers
\* go straight to the store. Its requests are taken one at a time: the request
\* of slot 1 of server.js is handed to it as well, each variant on a storage of
\* its own.

sfixed == <<isConnected, configs, readings, clock, pc, req, doc, res, nextId,
            started, connectCalls, setSeq, seen, t0, faulted>>

\* The process of part_000 is running.
alive == vInit # "exited"

\* The handler of route r, from its entry to its await on the store (or to its
\* 400): validation, and the document it builds with Date.now(). A process that
\* has exited answers nothing.
pushEnter(r, b) ==
  IF ~alive THEN
    vHandled' = FALSE /\ vRes' = NoResponse /\ vNew' = <<>>
  ELSE IF r = PostConfig /\ missingThreshold(b) THEN
    vHandled' = TRUE /\ vRes' = BadRequest(ThresholdRequired) /\ vNew' = <<>>
  ELSE IF r = PostData /\ missingReading(b) THEN
    vHandled' = TRUE /\ vRes' = BadRequest(ReadingRequired) /\ vNew' = <<>>
  ELSE
    /\ vHandled' = FALSE
    /\ vRes' = NoResponse
    /\ vNew' = IF r = PostConfig THEN <<configUpdate(b, clock)>>
               ELSE IF r = PostData THEN <<newData(Len(vReadings) + 1, b, clock)>>
               ELSE <<>>

\* The same request is sent to both variants, after both answered the last one.
PairedRequest(r, b) ==
  /\ vHandled
  /\ Start(1, r, b)
  /\ pushEnter(r, b)
  /\ vMiss' = FALSE
  /\ UNCHANGED <<vConfigs, vReadings, vInit, vDoc, emitted>>

\* Startup initializeConfig(): Config.countDocuments() resolves.
PushInitCount ==
  /\ vInit = "count"
  /\ IF Len(vConfigs) = 0
       THEN vInit' = "create" /\ vDoc' = <<defaultConfig(clock)>>
       ELSE vInit' = "done" /\ UNCHANGED vDoc
  /\ UNCHANGED <<vConfigs, vReadings, vNew, vMiss, vRes, vHandled, emitted>>
  /\ UNCHANGED svars

\* Startup initializeConfig(): Config.create resolves.
PushInitCreate ==
  /\ vInit = "create"
  /\ vConfigs' = Append(vConfigs, vDoc[1])
  /\ vInit' = "done"
  /\ vDoc' = <<>>
  /\ UNCHANGED <<vReadings, vNew, vMiss, vRes, vHandled, emitted>>
  /\ UNCHANGED svars

\* Startup initializeConfig(): countDocuments or create rejects. The promise of
\* line 58 has no handler: the unhandled rejection ends the process (Node's
\* default since version 15), and the request in flight is never answered.
PushInitFail ==
  /\ vInit \in {"count", "create"}
  /\ vInit' = "exited"
  /\ vDoc' = <<>>
  /\ anyFault' = TRUE
  /\ UNCHANGED <<vConfigs, vReadings, vNew, vMiss, vRes, vHandled, emitted>>
  /\ UNCHANGED sfixed

\* The store applies a write that the process sent before it exited.
PushOrphanWrite ==
  /\ ~alive
  /\ ~vHandled
  /\ vNew # <<>>
  /\ IF req[1].route = PostConfig
       THEN /\ vConfigs' = IF matched(vConfigs) /\ ~vMiss
                             THEN updateFirst(vConfigs, vNew[1])
                             ELSE upsertInsert(vConfigs, vNew[1])
            /\ UNCHANGED vReadings
       ELSE vReadings' = Append(vReadings, vNew[1]) /\ UNCHANGED vConfigs
  /\ vNew' = <<>>
  /\ vMiss' = FALSE
  /\ UNCHANGED <<vInit, vDoc, vRes, vHandled, emitted>>
  /\ UNCHANGED svars

answer(r) == vRes' = r /\ vHandled' = TRUE /\ vNew' = <<>> /\ vMiss' = FALSE

\* The storage operation the handler awaits rejects: 500.
PushFail ==
  /\ alive
  /\ ~vHandled
  /\ answer(ServerError)
  /\ anyFault' = TRUE
  /\ UNCHANGED <<vConfigs, vReadings, vInit, vDoc, emitted>>
  /\ UNCHANGED sfixed

\* GET /api/data: Data.find().sort().limit() resolves.
PushGetData ==
  /\ alive
  /\ ~vHandled
  /\ req[1].route = GetData
  /\ \E tie \in TieOrders : answer(Ok(findRecent(vReadings, tie)))
  /\ UNCHANGED <<vConfigs, vReadings, vInit, vDoc, emitted>>
  /\ UNCHANGED svars

\* GET /api/config, GET /api/esp8266/config: Config.findOne() resolves.
PushGetConfig ==
  /\ alive
  /\ ~vHandled
  /\ req[1].route \in ConfigReads
  /\ answer(Ok(findOne(vConfigs)))
  /\ UNCHANGED <<vConfigs, vReadings, vInit, vDoc, emitted>>
  /\ UNCHANGED svars

\* POST /api/config: Config.findOneAndUpdate finds a Config and updates it;
\* io.emit('config_update', { threshold }); res.json(config).
PushPostConfig ==
  /\ alive
  /\ ~vHandled
  /\ req[1].route = PostConfig
  /\ ~vMiss
  /\ matched(vConfigs)
  /\ vConfigs' = updateFirst(vConfigs, vNew[1])
  /\ emitted' = Append(emitted, <<"config_update", vNew[1].threshold>>)
  /\ answer(Ok(<<vConfigs'[1]>>))
  /\ UNCHANGED <<vReadings, vInit, vDoc>>
  /\ UNCHANGED svars

\* POST /api/config: Config.findOneAndUpdate finds no Config; the store goes on
\* to insert one.
PushUpsertMiss ==
  /\ alive
  /\ ~vHandled
  /\ req[1].route = PostConfig
  /\ ~vMiss
  /\ ~matched(vConfigs)
  /\ vMiss' = TRUE
  /\ UNCHANGED <<vConfigs, vReadings, vInit, vDoc, vNew, vRes, vHandled, emitted>>
  /\ UNCHANGED svars

\* POST /api/config: the insert of the upsert is applied;
\* io.emit('config_update', { threshold }); res.json(config).
PushUpsertInsert ==
  /\ alive
  /\ ~vHandled
  /\ vMiss
  /\ vConfigs' = upsertInsert(vConfigs, vNew[1])
  /\ emitted' = Append(emitted, <<"config_update", vNew[1].threshold>>)
  /\ answer(Ok(vNew))
  /\ UNCHANGED <<vReadings, vInit, vDoc>>
  /\ UNCHANGED svars

\* POST /api/esp8266/data: newData.save() resolves;
\* io.emit('data_update', { temperature, fanSpeed, timestamp }); res.json(newData).
PushPostData ==
  /\ alive
  /\ ~vHandled
  /\ req[1].route = PostData
  /\ vReadings' = Append(vReadings, vNew[1])
  /\ emitted' = Append(emitted, <<"data_update", vNew[1].temperature,
                                  vNew[1].fanSpeed, vNew[1].timestamp>>)
  /\ answer(Ok(vNew))
  /\ UNCHANGED <<vConfigs, vInit, vDoc>>
  /\ UNCHANGED svars

NextVariants ==
  \/ \E r \in Routes : \E b \in Bodies(r) : PairedRequest(r, b)
  \/ Step(1)
  \/ PushInitCount \/ PushInitCreate \/ PushInitFail \/ PushOrphanWrite
  \/ PushGetData \/ PushGetConfig \/ PushPostConfig \/ PushUpsertMiss \/ PushUpsertInsert
  \/ PushPostData \/ PushFail
  \/ Tick

SpecVariants == Init /\ [][NextVariants]_vars

\* ================================================================ claims
Done(p, r) == pc[p] = "done" /\ req[p].route = r
Answered(p, r) == Done(p, r) /\ res[p].status = 200
Last(s) == s[Len(s)]

\* The step is one of slot p's handler.
StepOf(p) == <<pc[p], req[p], res[p], doc[p]>>' # <<pc[p], req[p], res[p], doc[p]>>

\* C1: the Config collection never holds two records, whatever the interleaving
\* of the requests that run initializeConfig() and of the upserts.
C1_ConfigSingleton == Len(configs) <= 1

\* The request of slot p is a write that lacks a required field.
InvalidWrite(p) ==
  \/ req[p].route = PostConfig /\ missingThreshold(req[p].body)
  \/ req[p].route = PostData /\ missingReading(req[p].body)

\* C2: a write request that lacks a required field changes neither collection,
\* and is answered 400 whatever the state of the storage connection.
C2_MissingFieldIs400 ==
  [][\A p \in Procs :
       (StepOf(p) /\ InvalidWrite(p)') =>
          /\ configs' = configs
          /\ readings' = readings
          /\ (pc'[p] = "done" => res'[p].status = 400)]_vars

\* POST /api/config of slot q succeeded and is the last upsert applied; GET
\* (esp8266/)config of slot p arrived after it, and no upsert was applied since.
ReadAfterWrite(q, p) ==
  /\ Answered(q, PostConfig)
  /\ \E r \in ConfigReads : Answered(p, r)
  /\ seen[q] = setSeq
  /\ seen[p] = setSeq

\* C3: read-your-write: a getConfig called after a successful setThreshold(v),
\* with no other setThreshold in between, returns a Config with threshold = v
\* and lastUpdated at or after the time setThreshold was called.
C3_ReadYourWrite ==
  \A q, p \in Procs :
    ReadAfterWrite(q, p) =>
      /\ res[p].body # <<>>
      /\ res[p].body[1].threshold = req[q].body.threshold[1]
      /\ res[p].body[1].lastUpdated >= t0[q]

\* C4 (as amended): GET /api/data never returns more than 50 entries, and its
\* entries are in non-increasing order of timestamp: readings stamped at the
\* same instant are adjacent, in no specified order.
C4_RecentBoundedSorted ==
  \A p \in Procs :
    Answered(p, GetData) =>
      /\ Len(res[p].body) <= LIMIT
      /\ \A i \in 1..(Len(res[p].body) - 1) :
           res[p].body[i].timestamp >= res[p].body[i + 1].timestamp

\* C4 (as claimed): at most 50 entries, in strictly decreasing order of timestamp.
C4_StrictlyDescending ==
  \A p \in Procs :
    Answered(p, GetData) =>
      /\ Len(res[p].body) <= LIMIT
      /\ \A i \in 1..(Len(res[p].body) - 1) :
           res[p].body[i].timestamp > res[p].body[i + 1].timestamp

\* C4 witness: more than 50 readings are stored, and a query returned 50 of
\* them, the newest taken later than the oldest returned.
C4_Witness ==
  \E p \in Procs :
    /\ Answered(p, GetData)
    /\ Len(readings) > LIMIT
    /\ Len(res[p].body) = LIMIT
    /\ res[p].body[1].timestamp > res[p].body[LIMIT].timestamp

\* POST /api/esp8266/data of slot q succeeded and its record is the last one
\* stored; GET /api/data of slot p arrived after it and has been answered.
QueryAfterRecord(q, p) ==
  /\ Answered(q, PostData)
  /\ Answered(p, GetData)
  /\ readings # <<>>
  /\ Last(readings) = res[q].body[1]
  /\ seen[p] = Len(readings)

\* The record d is newer than every other stored reading.
Newest(d) == \A i \in 1..Len(readings) : readings[i] = d \/ readings[i].timestamp < d.timestamp

\* C5 (as claimed): the record a POST /api/esp8266/data returned is the first
\* element of the next GET /api/data, whatever was stored before.
C5_RecordedIsFirst ==
  \A q, p \in Procs :
    QueryAfterRecord(q, p) => res[p].body # <<>> /\ res[p].body[1] = res[q].body[1]

\* C5 (as amended): the first element of that GET /api/data is stamped at or
\* after the record, and is the record itself when the record's timestamp is
\* later than that of every other stored reading.
C5_RecordedIsFirstIfNewest ==
  \A q, p \in Procs :
    QueryAfterRecord(q, p) =>
      /\ res[p].body # <<>>
      /\ res[p].body[1].timestamp >= res[q].body[1].timestamp
      /\ Newest(res[q].body[1]) => res[p].body[1] = res[q].body[1]

\* C5 witness: with more than 50 readings stored, the newest one was recorded
\* and the query that followed returned it first.
C5_Witness ==
  \E q, p \in Procs :
    /\ QueryAfterRecord(q, p)
    /\ Len(readings) > LIMIT
    /\ Newest(res[q].body[1])
    /\ res[p].body[1] = res[q].body[1]

\* C6: a request during which a storage operation failed is answered 500.
C6_FailureIs500 ==
  \A p \in Procs : (pc[p] = "done" /\ faulted[p]) => res[p].status = 500

\* C7: a 200 response of GET /api/config or GET /api/esp8266/config carries a
\* Config record, never null.
C7_ConfigNeverAbsent ==
  \A p \in Procs, r \in ConfigReads : Answered(p, r) => res[p].body # <<>>

\* The step is one of a GET /api/data handler, in slot p.
QueryStep(p) == StepOf(p) /\ req'[p].route = GetData

\* C8 (as claimed): handling GET /api/data changes neither collection.
C8_QueryIsPure ==
  [][\A p \in Procs : QueryStep(p) => readings' = readings /\ configs' = configs]_vars

\* C8 (as amended): handling GET /api/data never changes the Readings; it
\* changes the Config collection only by adding the default Config (threshold
\* 30), and not when its count found a Config record.
C8_QueryOnlyEnsuresConfig ==
  [][\A p \in Procs :
       QueryStep(p) =>
         /\ readings' = readings
         /\ \/ configs' = configs
            \/ /\ pc[p] = "create"
               /\ \E t \in 0..clock :
                    configs' = Append(configs, [threshold |-> 30, lastUpdated |-> t])
         /\ (pc[p] = "count" /\ configs # <<>>) => pc'[p] # "create"]_vars

\* C8 witness: the only request so far was a GET /api/data, it has been
\* answered, and the Config collection, empty before, holds the default Config.
C8_Witness ==
  \E p \in Procs :
    /\ started = 1
    /\ Answered(p, GetData)
    /\ Len(configs) = 1
    /\ configs[1].threshold = 30

\* A document without the fields that depend on when it was stored.
Content(d) ==
  IF "threshold" \in DOMAIN d THEN [threshold |-> d.threshold]
  ELSE [temperature |-> d.temperature, fanSpeed |-> d.fanSpeed]
Contents(s) == [i \in 1..Len(s) |-> Content(s[i])]

\* C9: with no storage failure on either side, the two variants answer the same
\* request the same way and, once part_000's startup has finished, hold the
\* same Config and Reading records (timestamps and ids aside).
C9_VariantsAgree ==
  (~anyFault /\ started > 0 /\ pc[1] = "done" /\ vHandled) =>
     /\ res[1].status = vRes.status
     /\ res[1].error = vRes.error
     /\ Contents(res[1].body) = Contents(vRes.body)
     /\ vInit = "done" =>
          /\ Contents(configs) = Contents(vConfigs)
          /\ Contents(readings) = Contents(vReadings)

\* C10: mongoose.connect is called at most once, and never once isConnected.
C10_ConnectOnce ==
  [][connectCalls' <= 1 /\ (isConnected => connectCalls' = connectCalls)]_vars

====
